---- MODULE Spec2Model ----
(***************************************************************************)
(* Classical tree counter (src/counting/classical_tree_counter.py).        *)
(*                                                                         *)
(* TreeCounter.count masks an RGB tile with a forest mask, inverts it,     *)
(* binarises it (grey, brightness/contrast, threshold 170, 3x3 opening)    *)
(* and hands the binary image to OpenCV's SimpleBlobDetector.  The script  *)
(* body walks the tiles of a raster, writes one rectangle per tile and one *)
(* point per keypoint, and maps each keypoint to geographic coordinates    *)
(* through the raster's affine transform.                                  *)
(*                                                                         *)
(* Images are modelled pixel by pixel.  The OpenCV, numpy and rasterio     *)
(* calls are modelled by what the library does on 8-bit images: their      *)
(* integer arithmetic is kept (rounding half to even, saturation to        *)
(* 0..255); real-valued quantities are kept as exact rationals.            *)
(***************************************************************************)
EXTENDS Integers, Sequences, FiniteSets, TLC

(***************************************************************************)
(* Bounds of the model.                                                    *)
(***************************************************************************)
\* Largest height and width of a tile handed to count.
MaxDim == 5
\* Largest height and width used for arrays of mismatching shape.
MaxBadDim == 2
\* Number of callers sharing one TreeCounter.
NumCallers == 2
\* Longest short side of a rectangle given to the blob detector.
MaxBlobSide == 3
\* Largest number of patches the iterator yields.
MaxTiles == 2
\* Largest number of keypoints of one patch.
MaxKeypoints == 1001
\* Reach of the patch corners, in quarter units.
GeoSpan == 4

VARIABLES
    params,              \* self.params
    return_locations,    \* self.return_locations
    pc,                  \* per caller: position inside count
    rgb_image,           \* per caller: argument rgb_image
    forest_mask,         \* per caller: argument forest_mask
    masked_rgb,          \* per caller: local masked_rgb
    keypoints,           \* per caller: local keypoints
    result,              \* per caller: returned dict
    err,                 \* per caller: raised exception
    bin_l_channel,       \* _preprocess_forest_img: contrast-adjusted grey image
    bin_mask_r,          \* _preprocess_forest_img: thresholded image
    det_pc,              \* _detect_blobs: position of the call
    det_img,             \* _detect_blobs: argument img
    det_centers,         \* _detect_blobs: the contours findBlobs examined
    det_keypoints,       \* _detect_blobs: returned keypoints
    main_pc,             \* script: position in the tile loop
    geotiff,             \* script: geotiff.transform
    it,                  \* script: the patches the iterator yields
    main_i,              \* script: i of enumerate(it)
    patch,               \* script: current patch
    main_nr,             \* script: nr of enumerate(keypoints)
    trees_shapefile,     \* script: records written to trees.shp
    rectangles_shapefile \* script: records written to rectangles.shp

selfVars == <<params, return_locations>>

callVars == <<pc, rgb_image, forest_mask, masked_rgb, keypoints, result, err>>

countVars == <<selfVars, callVars>>

binarizeVars == <<bin_l_channel, bin_mask_r>>

detectVars == <<det_pc, det_img, det_centers, det_keypoints>>

scriptVars == <<main_pc, geotiff, it, main_i, patch, main_nr, trees_shapefile,
              rectangles_shapefile>>

vars == <<countVars, binarizeVars, detectVars, scriptVars>>

(***************************************************************************)
(* Arithmetic helpers.                                                     *)
(***************************************************************************)
Abs(x) == IF x < 0 THEN -x ELSE x

MinOf(S) == CHOOSE m \in S : \A x \in S : m <= x

MaxOf(S) == CHOOSE m \in S : \A x \in S : x <= m

\* cvRound / saturate_cast rounding of the rational n/d (d > 0): to the
\* nearest integer, ties to the even one.
RoundHalfEven(n, d) ==
    LET q == n \div d
        r == n - q * d
    IN  IF 2 * r < d THEN q
        ELSE IF 2 * r > d THEN q + 1
        ELSE IF q % 2 = 0 THEN q ELSE q + 1

\* saturate_cast<uchar>
Saturate(v) == IF v < 0 THEN 0 ELSE IF v > 255 THEN 255 ELSE v

RECURSIVE BitAnd8(_, _, _)
\* Bitwise AND of two 8-bit values, bit by bit (n bits left).
BitAnd8(a, b, n) ==
    IF n = 0 THEN 0
    ELSE (IF a % 2 = 1 /\ b % 2 = 1 THEN 1 ELSE 0)
         + 2 * BitAnd8(a \div 2, b \div 2, n - 1)

(***************************************************************************)
(* numpy arrays and Python's None.                                         *)
(*                                                                         *)
(* An array is its shape and its pixels: px maps <<row, col>> to a grey    *)
(* value (2-d arrays) or to the tuple of channel values (3-d arrays).      *)
(***************************************************************************)
NoneVal == [kind |-> "None"]

IsNone(v) == v.kind = "None"

Pixels(h, w) == (0 .. h - 1) \X (0 .. w - 1)

\* The array holds its elements: px is kept as the explicit function of
\* its values (f @@ <<>> is f).
NdArray(shape, px) ==
    [kind |-> "ndarray", shape |-> shape, px |-> px @@ <<>>]

Height(a) == a.shape[1]

Width(a) == a.shape[2]

\* cv::Mat::empty(): no element at all.
IsEmptyMat(a) == IsNone(a) \/ DOMAIN a.px = {}

\* The Python binding turns an empty cv::Mat result into None.
FromMat(m) == IF IsEmptyMat(m) THEN NoneVal ELSE m

(***************************************************************************)
(* OpenCV pixel operations used by count and _preprocess_forest_img.       *)
(***************************************************************************)
\* Mutant of cv2_bitwise_and: the mask is ignored.
cv2_bitwise_and_unmasked(src1, src2, mask) ==
    IF IsEmptyMat(src1) THEN NoneVal
    ELSE FromMat(NdArray(src1.shape,
             [p \in DOMAIN src1.px |->
                 [ch \in DOMAIN src1.px[p] |->
                     BitAnd8(src1.px[p][ch], src2.px[p][ch], 8)]]))

\* cv2.bitwise_and(src1, src2, mask=mask): channel-wise AND where the mask
\* is non-zero, 0 elsewhere (the destination is freshly allocated).
cv2_bitwise_and(src1, src2, mask) ==
    IF IsEmptyMat(src1) THEN NoneVal
    ELSE FromMat(NdArray(src1.shape,
             [p \in DOMAIN src1.px |->
                 IF mask.px[p] # 0
                 THEN [ch \in DOMAIN src1.px[p] |->
                          BitAnd8(src1.px[p][ch], src2.px[p][ch], 8)]
                 ELSE [ch \in DOMAIN src1.px[p] |-> 0]]))

\* cv2.bitwise_not(src): the complement of every channel value.  A None
\* argument converts to an empty Mat, and an empty result comes back None.
cv2_bitwise_not(src) ==
    IF IsEmptyMat(src) THEN NoneVal
    ELSE FromMat(NdArray(src.shape,
             [p \in DOMAIN src.px |->
                 [ch \in DOMAIN src.px[p] |-> 255 - src.px[p][ch]]]))

\* cv2.cvtColor(img, cv2.COLOR_BGR2GRAY) on 8-bit data: channel 0 is taken
\* as blue, channel 2 as red; 15-bit fixed point weights, rounded.
cv2_cvtColor_BGR2GRAY(img) ==
    NdArray(<<Height(img), Width(img)>>,
        [p \in DOMAIN img.px |->
            (img.px[p][1] * 3735 + img.px[p][2] * 19235
               + img.px[p][3] * 9798 + 16384) \div 32768])

\* cv2.addWeighted(src, alpha, src, 0, gamma) on 8-bit data, with
\* alpha = aNum/den and gamma = gNum/den.
cv2_addWeighted(src, aNum, gNum, den) ==
    NdArray(src.shape,
        [p \in DOMAIN src.px |->
            Saturate(RoundHalfEven(aNum * src.px[p] + gNum, den))])

\* cv2.threshold(src, thresh, maxval, cv2.THRESH_BINARY)
cv2_threshold(src, thresh, maxval) ==
    NdArray(src.shape,
        [p \in DOMAIN src.px |-> IF src.px[p] > thresh THEN maxval ELSE 0])

\* The pixels of the image under a k x k kernel of ones anchored at p;
\* pixels outside the image do not take part (default border value).
Under(img, p, k) ==
    LET reach == (-(k \div 2)) .. (k \div 2)
    IN  {<<p[1] + dr, p[2] + dc>> : dr \in reach, dc \in reach}
            \cap DOMAIN img.px

cv2_erode(img, k) ==
    NdArray(img.shape,
        [p \in DOMAIN img.px |-> MinOf({img.px[q] : q \in Under(img, p, k)})])

cv2_dilate(img, k) ==
    NdArray(img.shape,
        [p \in DOMAIN img.px |-> MaxOf({img.px[q] : q \in Under(img, p, k)})])

\* cv2.morphologyEx(src, cv2.MORPH_OPEN, np.ones((k, k))): erosion, then
\* dilation.
cv2_morphologyEx_OPEN(src, k) == cv2_dilate(cv2_erode(src, k), k)

(***************************************************************************)
(* TreeCounter._apply_brightness_contrast                                  *)
(***************************************************************************)
apply_brightness_contrast(input_img, brightness, contrast) ==
    LET shadow == IF brightness > 0 THEN brightness ELSE 0
        highlight == IF brightness > 0 THEN 255 ELSE 255 + brightness
        \* alpha_b = (highlight - shadow) / 255, gamma_b = shadow
        buf == IF brightness # 0
               THEN cv2_addWeighted(input_img, highlight - shadow,
                                    shadow * 255, 255)
               ELSE input_img
        \* f = 131 * (contrast + 127) / (127 * (131 - contrast))
        fNum == 131 * (contrast + 127)
        fDen == 127 * (131 - contrast)
        \* alpha_c = f, gamma_c = 127 * (1 - f)
    IN  IF contrast # 0
        THEN cv2_addWeighted(buf, fNum, 127 * (fDen - fNum), fDen)
        ELSE buf

(***************************************************************************)
(* TreeCounter._preprocess_forest_img                                      *)
(***************************************************************************)
\* Mutant of BinarizeThreshold: the threshold value itself turns white.
BinarizeInclusive(l_channel) == cv2_threshold(l_channel, 169, 255)

BinarizeThreshold(l_channel) == cv2_threshold(l_channel, 170, 255)

\* Mutant of preprocess_forest_img: the opening is applied to the
\* contrast-adjusted image, the threshold is left out.
preprocess_unthresholded(img) ==
    cv2_morphologyEx_OPEN(
        apply_brightness_contrast(cv2_cvtColor_BGR2GRAY(img), 64, 90), 3)

preprocess_forest_img(img) ==
    LET l_channel == apply_brightness_contrast(
                         cv2_cvtColor_BGR2GRAY(img), 64, 90)
        mask_r == BinarizeThreshold(l_channel)
    IN  cv2_morphologyEx_OPEN(mask_r, 3)

(***************************************************************************)
(* cv2.findContours(binary, RETR_LIST, CHAIN_APPROX_NONE), as the blob     *)
(* detector calls it: the outer border of every 8-connected component of   *)
(* non-zero pixels and the border of every hole (a 4-connected region of   *)
(* zero pixels that does not reach the image frame), each followed pixel   *)
(* by pixel along non-zero pixels (Suzuki-Abe border following).           *)
(***************************************************************************)
NonZeroAt(img, p) == p \in DOMAIN img.px /\ img.px[p] # 0

\* The eight neighbour offsets <<drow, dcol>>, counter-clockwise from "right".
Deltas ==
    << <<0, 1>>, <<-1, 1>>, <<-1, 0>>, <<-1, -1>>,
       <<0, -1>>, <<1, -1>>, <<1, 0>>, <<1, 1>> >>

Step(p, s) == <<p[1] + Deltas[s + 1][1], p[2] + Deltas[s + 1][2]>>

Neigh8(p) == {Step(p, s) : s \in 0 .. 7}

Neigh4(p) == {Step(p, s) : s \in {0, 2, 4, 6}}

\* Position of a pixel in the raster scan.
RasterIndex(img, p) == p[1] * Width(img) + p[2]

RasterFirst(img, S) ==
    CHOOSE p \in S : \A q \in S : RasterIndex(img, p) <= RasterIndex(img, q)

\* The pixels of `rest` next to a pixel of `frontier`.
Reached(frontier, rest, eight) ==
    UNION {IF eight THEN Neigh8(p) ELSE Neigh4(p) : p \in frontier} \cap rest

RECURSIVE Grow(_, _, _, _)
\* The pixels of `rest` connected to `frontier`, added to `done`.
Grow(done, frontier, rest, eight) ==
    IF frontier = {} THEN done
    ELSE Grow(done \cup frontier,
              Reached(frontier, rest, eight) \ (done \cup frontier),
              rest, eight)

RECURSIVE Components(_, _, _)
RECURSIVE ComponentsAfter(_, _, _, _)
\* The connected components of the pixel set S, in raster order of their
\* first pixel.
Components(img, S, eight) ==
    IF S = {} THEN <<>>
    ELSE ComponentsAfter(img, S, Grow({}, {RasterFirst(img, S)}, S, eight),
                         eight)

\* comp is the first component of S; the others follow.
ComponentsAfter(img, S, comp, eight) ==
    <<comp>> \o Components(img, S \ comp, eight)

OnFrame(img, p) ==
    \/ p[1] = 0 \/ p[1] = Height(img) - 1
    \/ p[2] = 0 \/ p[2] = Width(img) - 1

RECURSIVE SearchClockwise(_, _, _, _)
\* The first direction s, s-1, ... (n tries) that leads to a non-zero
\* pixel; -1 when there is none.
SearchClockwise(img, p, s, n) ==
    IF n = 0 THEN -1
    ELSE IF NonZeroAt(img, Step(p, s)) THEN s
    ELSE SearchClockwise(img, p, (s + 7) % 8, n - 1)

RECURSIVE SearchCounterClockwise(_, _, _, _)
SearchCounterClockwise(img, p, s, n) ==
    IF n = 0 THEN -1
    ELSE IF NonZeroAt(img, Step(p, s)) THEN s
    ELSE SearchCounterClockwise(img, p, (s + 1) % 8, n - 1)

RECURSIVE Follow(_, _, _, _, _, _)
RECURSIVE FollowTo(_, _, _, _, _, _)
\* Border following from i3, having arrived from direction s; stops when
\* the step from i1 leads back to the start i0.
Follow(img, i0, i1, i3, s, acc) ==
    FollowTo(img, i0, i1, i3,
             SearchCounterClockwise(img, i3, (s + 1) % 8, 8), acc)

\* s4 is the direction of the next border pixel i4 seen from i3.
FollowTo(img, i0, i1, i3, s4, acc) ==
    IF Step(i3, s4) = i0 /\ i3 = i1 THEN Append(acc, i3)
    ELSE Follow(img, i0, i1, Step(i3, s4), (s4 + 4) % 8, Append(acc, i3))

\* The border that starts at i0 towards direction s; a single pixel when
\* no direction leads to a non-zero pixel.
FetchFrom(img, i0, s) ==
    IF s = -1 THEN <<i0>>
    ELSE Follow(img, i0, Step(i0, s), i0, s, <<>>)

\* The border that starts at pixel i0: an outer border is entered from the
\* zero pixel on the left, a hole border from the zero pixel on the right.
FetchContour(img, i0, is_hole) ==
    FetchFrom(img, i0,
              SearchClockwise(img, i0, ((IF is_hole THEN 0 ELSE 4) + 7) % 8, 7))

NonZeroPixels(img) == {p \in DOMAIN img.px : img.px[p] # 0}

ZeroPixels(img) == {p \in DOMAIN img.px : img.px[p] = 0}

\* The zero regions that do not reach the image frame.
Holes(img) ==
    SelectSeq(Components(img, ZeroPixels(img), FALSE),
              LAMBDA c : \A p \in c : ~OnFrame(img, p))

\* The borders of the components `outer` and of the holes `holes`, each
\* from the pixel where the raster scan meets it first.
ContoursOf(img, outer, holes) ==
    [k \in 1 .. Len(outer) |->
        FetchContour(img, RasterFirst(img, outer[k]), FALSE)]
    \o [k \in 1 .. Len(holes) |->
        FetchContour(img, Step(RasterFirst(img, holes[k]), 4), TRUE)]

cv2_findContours(img) ==
    ContoursOf(img, Components(img, NonZeroPixels(img), TRUE), Holes(img))

(***************************************************************************)
(* cv2.moments of a contour (Green's theorem over the polygon of its       *)
(* points; x is the column, y the row).  The sums are kept as integers:    *)
(*   m00 = a00/2, m10 = a10/6, m01 = a01/6,                                *)
(*   m20 = a20/12, m11 = a11/24, m02 = a02/12,                             *)
(* with all signs flipped when a00 < 0, so that m00 >= 0.                  *)
(***************************************************************************)
RECURSIVE SumSeq(_)
\* The sum of a sequence of integers.
SumSeq(q) == IF q = <<>> THEN 0 ELSE Head(q) + SumSeq(Tail(q))

RECURSIVE Gcd(_, _)
Gcd(a, b) == IF b = 0 THEN a ELSE Gcd(b, a % b)

\* The rational n/d (d > 0) in lowest terms, as <<numerator, denominator>>.
Rational(n, d) ==
    LET g == Gcd(Abs(n), d)
    IN  IF g = 0 THEN <<0, 1>> ELSE <<n \div g, d \div g>>

\* if (a00 < 0) every sum changes its sign.
Oriented(m) ==
    IF m.a00 < 0
    THEN [a00 |-> -m.a00, a10 |-> -m.a10, a01 |-> -m.a01,
          a20 |-> -m.a20, a11 |-> -m.a11, a02 |-> -m.a02]
    ELSE m

ContourMoments(c, x0, y0) ==
    LET n == Len(c)
        X(i) == c[i][2] - x0
        Y(i) == c[i][1] - y0
        Prev(i) == IF i = 1 THEN n ELSE i - 1
        Dxy(i) == X(Prev(i)) * Y(i) - X(i) * Y(Prev(i))
        a00 == SumSeq([i \in 1 .. n |-> Dxy(i)])
        a10 == SumSeq([i \in 1 .. n |-> Dxy(i) * (X(Prev(i)) + X(i))])
        a01 == SumSeq([i \in 1 .. n |-> Dxy(i) * (Y(Prev(i)) + Y(i))])
        a20 == SumSeq([i \in 1 .. n |-> Dxy(i) * (X(Prev(i)) * X(Prev(i))
                   + X(Prev(i)) * X(i) + X(i) * X(i))])
        a11 == SumSeq([i \in 1 .. n |-> Dxy(i)
                   * (X(Prev(i)) * (2 * Y(Prev(i)) + Y(i))
                      + X(i) * (Y(Prev(i)) + 2 * Y(i)))])
        a02 == SumSeq([i \in 1 .. n |-> Dxy(i) * (Y(Prev(i)) * Y(Prev(i))
                   + Y(Prev(i)) * Y(i) + Y(i) * Y(i))])
    IN  Oriented([a00 |-> a00, a10 |-> a10, a01 |-> a01,
                  a20 |-> a20, a11 |-> a11, a02 |-> a02])

\* A value no expression has: evaluating it stops the check.  It marks the
\* inputs on which the real-valued comparisons of the detector are not
\* decided by the integer bounds used below.
Undecided == CHOOSE b \in {} : TRUE

(***************************************************************************)
(* cv2.SimpleBlobDetector_Params() and TreeCounter._get_blob_params        *)
(***************************************************************************)
SimpleBlobDetector_Params ==
    [thresholdStep |-> 10, minThreshold |-> 50, maxThreshold |-> 220,
     minRepeatability |-> 2, minDistBetweenBlobs |-> 10,
     filterByColor |-> TRUE, blobColor |-> 0,
     filterByArea |-> TRUE, minArea |-> 25, maxArea |-> 5000,
     filterByCircularity |-> FALSE, minCircularity |-> <<8, 10>>,
     filterByInertia |-> TRUE, minInertiaRatio |-> <<1, 10>>,
     filterByConvexity |-> TRUE, minConvexity |-> <<95, 100>>]

get_blob_params ==
    [SimpleBlobDetector_Params EXCEPT
        !.minThreshold = 0, !.maxThreshold = 100,
        !.filterByArea = TRUE, !.minArea = 1, !.maxArea = 10,
        !.filterByCircularity = TRUE, !.minCircularity = <<0, 1>>,
        !.filterByConvexity = TRUE, !.minConvexity = <<0, 1>>,
        !.filterByInertia = TRUE, !.minInertiaRatio = <<1, 100>>]

(***************************************************************************)
(* SimpleBlobDetector: the filters of findBlobs, one contour at a time.    *)
(* area2 is twice the contour area m00.                                    *)
(***************************************************************************)
\* Mutant of FilterByArea: maxArea itself passes.
FilterByAreaClosed(p, area2) ==
    ~(area2 < 2 * p.minArea \/ area2 > 2 * p.maxArea)

\* if (area < params.minArea || area >= params.maxArea) continue;
FilterByArea(p, area2) ==
    ~(area2 < 2 * p.minArea \/ area2 >= 2 * p.maxArea)

\* ratio = 4 * pi * area / perimeter^2 is never negative; it is compared
\* only with a minimum of 0 (the upper limit is the largest float).
FilterByCircularity(p) ==
    IF p.minCircularity[1] <= 0 THEN TRUE ELSE Undecided

\* All points of the contour on one line: the convex hull has no area.
Collinear(c) ==
    \A i, j, k \in 1 .. Len(c) :
        (c[j][2] - c[i][2]) * (c[k][1] - c[i][1])
          = (c[k][2] - c[i][2]) * (c[j][1] - c[i][1])

\* if (fabs(hullArea) < DBL_EPSILON) continue; ratio = area / hullArea is
\* never negative and is compared only with a minimum of 0.
FilterByConvexity(p, c) ==
    IF Collinear(c) THEN FALSE
    ELSE IF p.minConvexity[1] <= 0 THEN TRUE ELSE Undecided

\* ratio = imin / imax = (T - D) / (T + D) of the central second moments,
\* where mu20 = A/k, mu02 = B/k, 2*|mu11| = C/k, T = A + B and
\* D = sqrt(C^2 + (A - B)^2).  The contour passes when
\* ratio >= minInertiaRatio = rn/rd, that is, when
\*     (rd + rn)^2 * (4*A*B - C^2) >= 4 * rn * rd * T^2 ,
\* decided exactly for small moments and on integer bounds of the three
\* products otherwise.  (When D is below the detector's epsilon the ratio
\* is taken as 1; for a contour that encloses area the inequality holds
\* there as well.)
InertiaByBounds(rn, rd, a, b, cc, t) ==
    LET lhsLow == (rd + rn) * (rd + rn) * (4 * a * b - (cc + 1) * (cc + 1))
        lhsHigh == (rd + rn) * (rd + rn) * (4 * (a + 1) * (b + 1) - cc * cc)
        rhsLow == 4 * rn * rd * t * t
        rhsHigh == 4 * rn * rd * (t + 1) * (t + 1)
    IN  IF lhsLow >= rhsHigh THEN TRUE
        ELSE IF lhsHigh < rhsLow THEN FALSE
        ELSE Undecided

\* s = 1: the products are compared as they are; otherwise A, B, C and T
\* are scaled down by s and the bounds decide.
InertiaScaled(rn, rd, A, B, C, s) ==
    IF s = 1
    THEN (rd + rn) * (rd + rn) * (4 * A * B - C * C)
             >= 4 * rn * rd * (A + B) * (A + B)
    ELSE InertiaByBounds(rn, rd, A \div s, B \div s, C \div s, (A + B) \div s)

InertiaOfCentral(rn, rd, A, B, C) ==
    IF C = 0 /\ A = B THEN TRUE              \* denominator = 0: ratio = 1
    ELSE InertiaScaled(rn, rd, A, B, C, 1 + MaxOf({A, B, C}) \div 100)

\* A = 36*a00*mu20, B = 36*a00*mu02, C = |72*a00*mu11|
InertiaOfMoments(p, m) ==
    IF m.a00 = 0 THEN FALSE
    ELSE InertiaOfCentral(p.minInertiaRatio[1], p.minInertiaRatio[2],
             3 * m.a20 * m.a00 - 2 * m.a10 * m.a10,
             3 * m.a02 * m.a00 - 2 * m.a01 * m.a01,
             Abs(3 * m.a11 * m.a00 - 4 * m.a10 * m.a01))

\* The central moments do not depend on the origin: the sums are taken
\* from the corner of the contour's bounding box.
FilterByInertia(p, c) ==
    InertiaOfMoments(p,
        ContourMoments(c, MinOf({c[i][2] : i \in 1 .. Len(c)}),
                          MinOf({c[i][1] : i \in 1 .. Len(c)})))

(***************************************************************************)
(* SimpleBlobDetector::findBlobs: the centres of the contours of one       *)
(* binarised image that pass every enabled filter.                         *)
(***************************************************************************)
SquareSum(x, y) == x * x + y * y

\* One contour with the outcome of each filter.  location is the centroid
\* (m10/m00, m01/m00) as exact rationals <<x, y>>; reach2 bounds the
\* squared distance from the centroid to any contour point, hence the
\* squared radius of the blob.
ContourInfoAt(p, binary, c, m, cx, cy) ==
    LET row == RoundHalfEven(cy[1], cy[2])
        col == RoundHalfEven(cx[1], cx[2])
        xs == {c[i][2] : i \in 1 .. Len(c)}
        ys == {c[i][1] : i \in 1 .. Len(c)}
        \* ceil of the largest |x - cx| and |y - cy|
        rx == MaxOf({(Abs(x * cx[2] - cx[1]) + cx[2] - 1) \div cx[2] : x \in xs})
        ry == MaxOf({(Abs(y * cy[2] - cy[1]) + cy[2] - 1) \div cy[2] : y \in ys})
    IN  [area2 |-> m.a00,
         location |-> <<cx, cy>>,
         reach2 |-> SquareSum(rx, ry),
         areaOk |-> p.filterByArea => FilterByArea(p, m.a00),
         circularityOk |-> p.filterByCircularity => FilterByCircularity(p),
         inertiaOk |-> p.filterByInertia =>
                          (m.a00 # 0 => FilterByInertia(p, c)),
         convexityOk |-> p.filterByConvexity => FilterByConvexity(p, c),
         colorOk |-> p.filterByColor =>
                        (m.a00 # 0 => binary.px[<<row, col>>] = p.blobColor)]

\* m holds the moments of c about the image origin.
ContourInfoOf(p, binary, c, m) ==
    ContourInfoAt(p, binary, c, m,
        IF m.a00 = 0 THEN <<0, 1>> ELSE Rational(m.a10, 3 * m.a00),
        IF m.a00 = 0 THEN <<0, 1>> ELSE Rational(m.a01, 3 * m.a00))

ContourInfo(p, binary, c) ==
    ContourInfoOf(p, binary, c, ContourMoments(c, 0, 0))

BlobKept(info) ==
    /\ info.areaOk
    /\ info.circularityOk
    /\ info.inertiaOk
    /\ info.convexityOk
    /\ info.area2 # 0               \* if (moms.m00 == 0.0) continue;
    /\ info.colorOk

ContourInfosOf(p, binary, contours) ==
    [k \in 1 .. Len(contours) |-> ContourInfo(p, binary, contours[k])]

ContourInfos(p, binary) == ContourInfosOf(p, binary, cv2_findContours(binary))

findBlobs(p, binary) == SelectSeq(ContourInfos(p, binary), BlobKept)

(***************************************************************************)
(* SimpleBlobDetector::detect: findBlobs at every threshold of the sweep,  *)
(* centres of successive thresholds merged into groups, one keypoint per   *)
(* group seen at least minRepeatability times.                             *)
(***************************************************************************)
\* |u - v| of two rationals, rounded down and rounded up.
GapFloor(u, v) == Abs(u[1] * v[2] - v[1] * u[2]) \div (u[2] * v[2])

GapCeil(u, v) ==
    (Abs(u[1] * v[2] - v[1] * u[2]) + u[2] * v[2] - 1) \div (u[2] * v[2])

\* dist^2 between two locations, from below and from above.
Dist2Low(l1, l2) ==
    SquareSum(GapFloor(l1[1], l2[1]), GapFloor(l1[2], l2[2]))

Dist2High(l1, l2) ==
    SquareSum(GapCeil(l1[1], l2[1]), GapCeil(l1[2], l2[2]))

\* isNew = dist >= minDistBetweenBlobs && dist >= group radius
\*                                       && dist >= centre radius
IsNewAt(d, group, center, low, high) ==
    IF high < d * d THEN FALSE
    ELSE IF low >= d * d /\ low >= group.reach2 /\ low >= center.reach2
         THEN TRUE
    ELSE Undecided

IsNew(p, group, center) ==
    IsNewAt(p.minDistBetweenBlobs, group, center,
            Dist2Low(group.location, center.location),
            Dist2High(group.location, center.location))

\* centers[j].push_back(curCenters[i]): the group keeps the location of its
\* members (the centres that join a group of this model lie on its
\* location, so its middle element and its weighted mean do too).
JoinGroup(group, center) ==
    IF center.location = group.location
    THEN [group EXCEPT !.size = @ + 1,
                       !.reach2 = IF center.reach2 > @ THEN center.reach2 ELSE @]
    ELSE Undecided

NewGroup(center) ==
    [location |-> center.location, reach2 |-> center.reach2, size |-> 1]

RECURSIVE FirstNotNew(_, _, _, _)
\* The first group j (from k on) the centre is not new to; 0 when none.
FirstNotNew(p, groups, center, k) ==
    IF k > Len(groups) THEN 0
    ELSE IF ~IsNew(p, groups[k], center) THEN k
    ELSE FirstNotNew(p, groups, center, k + 1)

RECURSIVE MergeLevel(_, _, _, _, _)
RECURSIVE MergeCenter(_, _, _, _, _, _)
\* One threshold level: every centre of curCenters (from i on) joins the
\* first group it is not new to, or opens a group in newCenters.
MergeLevel(p, centers, newCenters, curCenters, i) ==
    IF i > Len(curCenters) THEN centers \o newCenters
    ELSE MergeCenter(p, centers, newCenters, curCenters, i,
                     FirstNotNew(p, centers, curCenters[i], 1))

\* Centre i is not new to group j (j = 0: it is new to every group).
MergeCenter(p, centers, newCenters, curCenters, i, j) ==
    IF j = 0
    THEN MergeLevel(p, centers,
             Append(newCenters, NewGroup(curCenters[i])),
             curCenters, i + 1)
    ELSE MergeLevel(p,
             [centers EXCEPT ![j] = JoinGroup(@, curCenters[i])],
             newCenters, curCenters, i + 1)

\* for (thresh = minThreshold; thresh < maxThreshold; thresh += thresholdStep)
Thresholds(p) ==
    {t \in p.minThreshold .. p.maxThreshold - 1 :
        (t - p.minThreshold) % p.thresholdStep = 0}

KeyPoint(group) == [pt |-> group.location]

\* findBlobs of every image of the set, as pairs <<image, centres>>.
BlobsPerImage(p, images) == {<<b, findBlobs(p, b)>> : b \in images}

BlobsOf(found, b) == (CHOOSE f \in found : f[1] = b)[2]

RECURSIVE Sweep(_, _, _, _, _)
\* The groups after the thresholds t, t + thresholdStep, ... below
\* maxThreshold, starting from the groups `centers`; `found` holds
\* findBlobs of every binarised image of the sweep.
Sweep(p, img, found, centers, t) ==
    IF t >= p.maxThreshold THEN centers
    ELSE Sweep(p, img, found,
               MergeLevel(p, centers, <<>>,
                          BlobsOf(found, cv2_threshold(img, t, 255)), 1),
               t + p.thresholdStep)

KeyPointsOf(groups) == [k \in 1 .. Len(groups) |-> KeyPoint(groups[k])]

SimpleBlobDetector_detect(p, img) ==
    KeyPointsOf(
        SelectSeq(
            Sweep(p, img,
                  BlobsPerImage(p, {cv2_threshold(img, t, 255) :
                                       t \in Thresholds(p)}),
                  <<>>, p.minThreshold),
            LAMBDA g : g.size >= p.minRepeatability))

(***************************************************************************)
(* TreeCounter._detect_blobs                                               *)
(***************************************************************************)
detect_blobs(img, p) == SimpleBlobDetector_detect(p, img)

(***************************************************************************)
(* Inputs of count.                                                        *)
(*                                                                         *)
(* A tile is a background colour with one rectangle of another colour; a   *)
(* binarised pixel is 0 (blob colour) where the tile is brighter than 160  *)
(* and forest, 255 elsewhere.  The forest mask holds 0 and 1, as           *)
(* np.ones_like builds it.  Zero-sized tiles are included.                 *)
(***************************************************************************)
Palette == {<<0, 0, 0>>, <<160, 160, 160>>, <<161, 161, 161>>,
            <<255, 255, 255>>}

\* <<background, rectangle>>: a bright crown on dark ground, a dark spot on
\* bright ground, and a crown one grey level above the ground.
ColourPairs == {<< <<0, 0, 0>>, <<255, 255, 255>> >>,
                << <<255, 255, 255>>, <<0, 0, 0>> >>,
                << <<160, 160, 160>>, <<161, 161, 161>> >>}

\* <<height, width>> of the rectangle.
CrownSizes == {<<1, 1>>, <<1, 2>>, <<2, 2>>}

Tile(h, w, bg, fg, r0, c0, rh, rw) ==
    NdArray(<<h, w, 3>>,
        [p \in Pixels(h, w) |->
            IF /\ r0 <= p[1] /\ p[1] < r0 + rh
               /\ c0 <= p[2] /\ p[2] < c0 + rw
            THEN fg ELSE bg])

\* Forest everywhere (1), nowhere (0), or everywhere but the last column.
MaskKinds == {"all", "none", "cut"}

Mask(h, w, kind) ==
    NdArray(<<h, w>>,
        [p \in Pixels(h, w) |->
            IF kind = "all" THEN 1
            ELSE IF kind = "none" THEN 0
            ELSE IF p[2] = w - 1 THEN 0 ELSE 1])

Tiles(h, w) ==
    {Tile(h, w, bg, bg, 0, 0, 0, 0) : bg \in Palette}
    \cup
    {Tile(h, w, c[1], c[2], qd[1], qd[2], qd[3][1], qd[3][2]) :
        c \in ColourPairs,
        qd \in {qd \in (0 .. h - 1) \X (0 .. w - 1) \X CrownSizes :
                  qd[1] + qd[3][1] <= h /\ qd[2] + qd[3][2] <= w}}

TileInputs ==
    UNION {{<<t, Mask(hw[1], hw[2], k)>> : t \in Tiles(hw[1], hw[2]), k \in MaskKinds} :
              hw \in (0 .. MaxDim) \X (0 .. MaxDim)}

\* np.zeros(shape) for a shape of any rank: one value per index tuple.
RECURSIVE IndexTuples(_)
IndexTuples(shape) ==
    IF shape = <<>> THEN {<<>>}
    ELSE {<<i>> \o t : i \in 0 .. shape[1] - 1, t \in IndexTuples(Tail(shape))}

Zeros(shape) == NdArray(shape, [i \in IndexTuples(shape) |-> 0])

\* Pairs of arrays whose ranks or sizes do not fit together.
BadShapeInputs ==
    LET D == 0 .. MaxBadDim
        rgbShapes == {<<h, w>> : h, w \in D}
                     \cup {<<h, w, 3>> : h, w \in D}
                     \cup {<<h, w, 3, 1>> : h, w \in D}
        maskShapes == {<<n>> : n \in D}
                      \cup {<<h, w>> : h, w \in D}
                      \cup {<<h, w, 1>> : h, w \in D}
    IN  {<<Zeros(ab[1]), Zeros(ab[2])>> :
            ab \in {ab \in rgbShapes \X maskShapes :
                      ~(/\ Len(ab[1]) = 3 /\ Len(ab[2]) = 2
                        /\ SubSeq(ab[1], 1, 2) = ab[2])}}

(***************************************************************************)
(* TreeCounter.__init__ and TreeCounter.count, one caller at a time.       *)
(*                                                                         *)
(* pc: "idle" (no call yet), "called", "mask", "masked", "detect",         *)
(* "collect", "returned", "raised".                                        *)
(***************************************************************************)
Callers == 1 .. NumCallers

\* A local that has not been assigned.
Unbound == [kind |-> "unbound"]

PyList(items) == [kind |-> "list", items |-> items]

AssertionError(msg) == [kind |-> "AssertionError", msg |-> msg]

InitCount ==
    /\ params = get_blob_params
    /\ return_locations = FALSE
    /\ pc = [c \in Callers |-> "idle"]
    /\ rgb_image = [c \in Callers |-> Unbound]
    /\ forest_mask = [c \in Callers |-> Unbound]
    /\ masked_rgb = [c \in Callers |-> Unbound]
    /\ keypoints = [c \in Callers |-> Unbound]
    /\ result = [c \in Callers |-> Unbound]
    /\ err = [c \in Callers |-> Unbound]

\* counting_dict = tree_couter.count(rgb, mask): a call enters count.
CallCount(c, input) ==
    /\ pc[c] = "idle"
    /\ pc' = [pc EXCEPT ![c] = "called"]
    /\ rgb_image' = [rgb_image EXCEPT ![c] = input[1]]
    /\ forest_mask' = [forest_mask EXCEPT ![c] = input[2]]
    /\ masked_rgb' = [masked_rgb EXCEPT ![c] = Unbound]
    /\ keypoints' = [keypoints EXCEPT ![c] = Unbound]
    /\ result' = [result EXCEPT ![c] = Unbound]
    /\ err' = [err EXCEPT ![c] = Unbound]
    /\ UNCHANGED <<selfVars, scriptVars, binarizeVars, detectVars>>

\* Mutant of FailedAssert: the mask is checked before the image.
FailedAssertMaskFirst(rgb, mask) ==
    IF 2 # Len(mask.shape)
    THEN AssertionError("Forest mask array should be 2-dimensional")
    ELSE IF 3 # Len(rgb.shape)
    THEN AssertionError("RGB image array should be 3-dimensional")
    ELSE IF SubSeq(rgb.shape, 1, 2) # mask.shape
    THEN AssertionError("Forest mask should have the same height and width as RGB")
    ELSE Unbound

\* The three assert statements, in order; the first that fails raises.
FailedAssert(rgb, mask) ==
    IF 3 # Len(rgb.shape)
    THEN AssertionError("RGB image array should be 3-dimensional")
    ELSE IF 2 # Len(mask.shape)
    THEN AssertionError("Forest mask array should be 2-dimensional")
    ELSE IF SubSeq(rgb.shape, 1, 2) # mask.shape
    THEN AssertionError("Forest mask should have the same height and width as RGB")
    ELSE Unbound

CheckShapes(c) ==
    /\ pc[c] = "called"
    /\ LET failed == FailedAssert(rgb_image[c], forest_mask[c])
       IN  IF failed = Unbound
           THEN /\ pc' = [pc EXCEPT ![c] = "mask"]
                /\ err' = err
           ELSE /\ pc' = [pc EXCEPT ![c] = "raised"]
                /\ err' = [err EXCEPT ![c] = failed]
    /\ UNCHANGED <<scriptVars, binarizeVars, detectVars>>
    /\ UNCHANGED <<selfVars, rgb_image, forest_mask, masked_rgb, keypoints,
                   result>>

\* masked_rgb = cv2.bitwise_and(rgb_image, rgb_image, mask=forest_mask)
\* masked_rgb = cv2.bitwise_not(masked_rgb)
MaskedInverted(rgb, mask) == cv2_bitwise_not(cv2_bitwise_and(rgb, rgb, mask))

MaskForest(c) ==
    /\ pc[c] = "mask"
    /\ masked_rgb' = [masked_rgb EXCEPT ![c] =
                         MaskedInverted(rgb_image[c], forest_mask[c])]
    /\ pc' = [pc EXCEPT ![c] = "masked"]
    /\ UNCHANGED <<scriptVars, binarizeVars, detectVars>>
    /\ UNCHANGED <<selfVars, rgb_image, forest_mask, keypoints, result, err>>

\* Mutant of NoContentResult: empty lists in place of None.
EmptyListsResult ==
    [trees |-> PyList(<<>>), count |-> 0, keypoints |-> PyList(<<>>)]

\* if masked_rgb is None: return {"trees": None, "count": 0, "keypoints": None}
NoContentResult == [trees |-> NoneVal, count |-> 0, keypoints |-> NoneVal]

ReturnNoContent(c) ==
    /\ pc[c] = "masked"
    /\ IsNone(masked_rgb[c])
    /\ result' = [result EXCEPT ![c] = NoContentResult]
    /\ pc' = [pc EXCEPT ![c] = "returned"]
    /\ UNCHANGED <<scriptVars, binarizeVars, detectVars>>
    /\ UNCHANGED <<selfVars, rgb_image, forest_mask, masked_rgb, keypoints, err>>

\* masked_rgb = self._preprocess_forest_img(masked_rgb)
Preprocess(c) ==
    /\ pc[c] = "masked"
    /\ ~IsNone(masked_rgb[c])
    /\ masked_rgb' = [masked_rgb EXCEPT ![c] = preprocess_forest_img(@)]
    /\ pc' = [pc EXCEPT ![c] = "detect"]
    /\ UNCHANGED <<scriptVars, binarizeVars, detectVars>>
    /\ UNCHANGED <<selfVars, rgb_image, forest_mask, keypoints, result, err>>

\* Mutant of DetectBlobs: detection narrows the area range of self.params.
DetectBlobsRetuning(c) ==
    /\ pc[c] = "detect"
    /\ keypoints' = [keypoints EXCEPT ![c] =
                        PyList(detect_blobs(masked_rgb[c], params))]
    /\ params' = [params EXCEPT !.maxArea = 2]
    /\ pc' = [pc EXCEPT ![c] = "collect"]
    /\ UNCHANGED <<scriptVars, binarizeVars, detectVars>>
    /\ UNCHANGED <<return_locations, rgb_image, forest_mask, masked_rgb,
                   result, err>>

\* keypoints = self._detect_blobs(img=masked_rgb, params=self.params)
DetectBlobs(c) ==
    /\ pc[c] = "detect"
    /\ keypoints' = [keypoints EXCEPT ![c] =
                        PyList(detect_blobs(masked_rgb[c], params))]
    /\ pc' = [pc EXCEPT ![c] = "collect"]
    /\ UNCHANGED <<scriptVars, binarizeVars, detectVars>>
    /\ UNCHANGED <<selfVars, rgb_image, forest_mask, masked_rgb, result, err>>

\* Mutant of CollectedResult: the keypoints are counted twice.
CollectedResultRecount(kps) ==
    LET all_key_points == <<>> \o kps.items
        trees_points == <<>> \o [k \in 1 .. Len(kps.items) |-> kps.items[k].pt]
        count == Len(all_key_points) + Len(trees_points)
    IN  [trees |-> PyList(trees_points), count |-> count,
         keypoints |-> PyList(all_key_points)]

\* all_key_points += keypoints; trees_points += [k.pt for k in keypoints]
\* count += len(trees_points); return {...}
CollectedResult(kps) ==
    LET all_key_points == <<>> \o kps.items
        trees_points == <<>> \o [k \in 1 .. Len(kps.items) |-> kps.items[k].pt]
        count == 0 + Len(trees_points)
    IN  [trees |-> PyList(trees_points), count |-> count,
         keypoints |-> PyList(all_key_points)]

ReturnResult(c) ==
    /\ pc[c] = "collect"
    /\ result' = [result EXCEPT ![c] = CollectedResult(keypoints[c])]
    /\ pc' = [pc EXCEPT ![c] = "returned"]
    /\ UNCHANGED <<scriptVars, binarizeVars, detectVars>>
    /\ UNCHANGED <<selfVars, rgb_image, forest_mask, masked_rgb, keypoints, err>>

\* The call is over: the caller has the dict or the exception, the frame
\* of count is gone.
EndCall(c) ==
    /\ pc[c] \in {"returned", "raised"}
    /\ pc' = [pc EXCEPT ![c] = "idle"]
    /\ rgb_image' = [rgb_image EXCEPT ![c] = Unbound]
    /\ forest_mask' = [forest_mask EXCEPT ![c] = Unbound]
    /\ masked_rgb' = [masked_rgb EXCEPT ![c] = Unbound]
    /\ keypoints' = [keypoints EXCEPT ![c] = Unbound]
    /\ result' = [result EXCEPT ![c] = Unbound]
    /\ err' = [err EXCEPT ![c] = Unbound]
    /\ UNCHANGED <<selfVars, scriptVars, binarizeVars, detectVars>>

CountStep(c) ==
    \/ CheckShapes(c)
    \/ MaskForest(c)
    \/ ReturnNoContent(c)
    \/ Preprocess(c)
    \/ DetectBlobs(c)
    \/ ReturnResult(c)
    \/ EndCall(c)

(***************************************************************************)
(* The binarisation step of _preprocess_forest_img on its own: the         *)
(* contrast-adjusted image l_channel takes every uint8 value.              *)
(***************************************************************************)
InitBinarize ==
    /\ bin_l_channel = Unbound
    /\ bin_mask_r = Unbound

\* (T, mask_r) = cv2.threshold(l_channel, 170, 255, cv2.THRESH_BINARY)
Binarize(img) ==
    /\ bin_l_channel' = img
    /\ bin_mask_r' = BinarizeThreshold(img)
    /\ UNCHANGED <<countVars, detectVars, scriptVars>>

\* One-row images holding the grey levels v and v + 1.
GreyImages ==
    {NdArray(<<1, 2>>, [p \in Pixels(1, 2) |-> (v + p[2]) % 256]) : v \in 0 .. 255}

(***************************************************************************)
(* _detect_blobs on its own, on binary images holding one rectangle of     *)
(* the other colour, with corner pixels of one of its sides taken away.    *)
(* Two                                                                     *)
(* pixels of background surround the rectangle, so that the border of the  *)
(* image is too large a contour to be a blob.                              *)
(***************************************************************************)
InitDetect ==
    /\ det_pc = "idle"
    /\ det_img = Unbound
    /\ det_centers = <<>>
    /\ det_keypoints = <<>>

\* self._detect_blobs(img=..., params=self.params) is entered.
CallDetect(img) ==
    /\ det_pc = "idle"
    /\ det_pc' = "called"
    /\ det_img' = img
    /\ UNCHANGED <<det_centers, det_keypoints>>
    /\ UNCHANGED <<countVars, binarizeVars, scriptVars>>

\* keypoints = detector.detect(img); return keypoints
DetectOn ==
    /\ det_pc = "called"
    /\ det_pc' = "returned"
    /\ det_centers' = ContourInfos(params, det_img)
    /\ det_keypoints' = detect_blobs(det_img, params)
    /\ UNCHANGED det_img
    /\ UNCHANGED <<countVars, binarizeVars, scriptVars>>

\* The caller has the keypoints; the frame of _detect_blobs is gone.
EndDetect ==
    /\ det_pc = "returned"
    /\ det_pc' = "idle"
    /\ det_img' = Unbound
    /\ det_centers' = <<>>
    /\ det_keypoints' = <<>>
    /\ UNCHANGED <<countVars, binarizeVars, scriptVars>>

\* The corner pixels of the rectangle at (r0, c0) of size rh x rw.
Corners(r0, c0, rh, rw) ==
    {<<r0, c0>>, <<r0, c0 + rw - 1>>, <<r0 + rh - 1, c0>>,
     <<r0 + rh - 1, c0 + rw - 1>>}

BlobImage(bg, rh, rw, notches) ==
    NdArray(<<rh + 4, rw + 4>>,
        [p \in Pixels(rh + 4, rw + 4) |->
            IF /\ 2 <= p[1] /\ p[1] < 2 + rh
               /\ 2 <= p[2] /\ p[2] < 2 + rw
               /\ p \notin notches
            THEN 255 - bg ELSE bg])

\* Rectangles of up to MaxBlobSide pixels one way and MaxBlobSide + 1 the
\* other.
BlobImages ==
    UNION {{BlobImage(q[1], q[2][1], q[2][2], notches) :
               notches \in {n \in SUBSET Corners(2, 2, q[2][1], q[2][2]) :
                               \E k \in {1, 2} : \A a, b \in n : a[k] = b[k]}} :
           q \in {0, 255} \X ((1 .. MaxBlobSide) \X (1 .. MaxBlobSide + 1))}

(***************************************************************************)
(* The script: one geotiff transform, the patches of the iterator, a       *)
(* rectangle record per patch and a point record per keypoint.             *)
(* Coordinates are rationals <<numerator, denominator>>; the arithmetic    *)
(* is exact.                                                               *)
(***************************************************************************)
RInt(n) == <<n, 1>>

RAdd(u, v) == Rational(u[1] * v[2] + v[1] * u[2], u[2] * v[2])

RSub(u, v) == Rational(u[1] * v[2] - v[1] * u[2], u[2] * v[2])

RMul(u, v) == Rational(u[1] * v[1], u[2] * v[2])

\* u / n for an integer n # 0
RDivInt(u, n) ==
    IF n > 0 THEN Rational(u[1], u[2] * n) ELSE Rational(-u[1], u[2] * (-n))

\* math.floor
RFloor(u) == u[1] \div u[2]

RLess(u, v) == u[1] * v[2] < v[1] * u[2]

\* affine.Affine(a, b, c, d, e, f): x = a*col + b*row + c, y = d*col + e*row + f
Affine(a, b, c, d, e, f) ==
    [a |-> a, b |-> b, c |-> c, d |-> d, e |-> e, f |-> f]

\* transform * (col, row)
AffineApply(t, col, row) ==
    <<RAdd(RAdd(RMul(RInt(t.a), col), RMul(RInt(t.b), row)), RInt(t.c)),
      RAdd(RAdd(RMul(RInt(t.d), col), RMul(RInt(t.e), row)), RInt(t.f))>>

\* ~transform * (x, y), as <<col, row>>
AffineInverseApply(t, x, y) ==
    LET det == t.a * t.e - t.b * t.d
        dx == RSub(x, RInt(t.c))
        dy == RSub(y, RInt(t.f))
    IN  <<RDivInt(RSub(RMul(RInt(t.e), dx), RMul(RInt(t.b), dy)), det),
          RDivInt(RSub(RMul(RInt(t.a), dy), RMul(RInt(t.d), dx)), det)>>

\* rio.transform.rowcol(transform, x, y): op = math.floor, as <<row, col>>
rio_transform_rowcol(t, x, y) ==
    LET colrow == AffineInverseApply(t, x, y)
    IN  <<RFloor(colrow[2]), RFloor(colrow[1])>>

\* Mutant of rio_transform_xy: offset = "ul", the corner of the pixel.
rio_transform_xy_ul(t, row, col) == AffineApply(t, col, row)

\* rio.transform.xy(transform, row, col): offset = "center"
rio_transform_xy(t, row, col) ==
    AffineApply(t, RAdd(col, <<1, 2>>), RAdd(row, <<1, 2>>))

\* x, y = keypoint.pt
\* y_min_pixels, x_min_pixels = rio.transform.rowcol(geotiff.transform, x_min, y_min)
\* point = Point(rio.transform.xy(geotiff.transform, y_min_pixels+y, x_min_pixels+x))
PointOf(t, corner, keypoint) ==
    LET x == keypoint.pt[1]
        y == keypoint.pt[2]
        min_pixels == rio_transform_rowcol(t, corner[1], corner[2])
        y_min_pixels == min_pixels[1]
        x_min_pixels == min_pixels[2]
    IN  rio_transform_xy(t, RAdd(RInt(y_min_pixels), y),
                            RAdd(RInt(x_min_pixels), x))

\* geotiff = rio.open(...); it = ForestIterator(...)
OpenInputs(t, patches) ==
    /\ main_pc = "start"
    /\ main_pc' = "loop"
    /\ geotiff' = t
    /\ it' = patches
    /\ UNCHANGED <<main_i, patch, main_nr, trees_shapefile,
                   rectangles_shapefile>>
    /\ UNCHANGED <<countVars, binarizeVars, detectVars>>

\* The head of one loop iteration, up to "if keypoints is not None":
\* the rectangle of the patch is written with id i*1000.
NextPatch ==
    /\ main_pc = "loop"
    /\ main_i + 1 < Len(it)
    /\ main_i' = main_i + 1
    /\ patch' = it[main_i' + 1]
    /\ rectangles_shapefile' =
           Append(rectangles_shapefile,
                  [geometry |-> <<patch'.left_upper_corner_coordinates,
                                  patch'.right_lower_corner_coordinates>>,
                   id |-> main_i' * 1000])
    /\ main_nr' = 0
    /\ main_pc' = IF IsNone(patch'.keypoints) THEN "loop" ELSE "points"
    /\ UNCHANGED <<geotiff, it, trees_shapefile>>
    /\ UNCHANGED <<countVars, binarizeVars, detectVars>>

\* One iteration of "for nr, keypoint in enumerate(keypoints)".
WritePoint ==
    /\ main_pc = "points"
    /\ main_nr < Len(patch.keypoints.items)
    /\ trees_shapefile' =
           Append(trees_shapefile,
                  [geometry |-> PointOf(geotiff,
                                        patch.left_upper_corner_coordinates,
                                        patch.keypoints.items[main_nr + 1]),
                   id |-> main_i * 1000 + main_nr])
    /\ main_nr' = main_nr + 1
    /\ UNCHANGED <<main_pc, geotiff, it, main_i, patch, rectangles_shapefile>>
    /\ UNCHANGED <<countVars, binarizeVars, detectVars>>

\* The keypoints are exhausted; the keypoint image is written.
EndPatch ==
    /\ main_pc = "points"
    /\ main_nr = Len(patch.keypoints.items)
    /\ main_pc' = "loop"
    /\ UNCHANGED <<geotiff, it, main_i, patch, main_nr, trees_shapefile,
                   rectangles_shapefile>>
    /\ UNCHANGED <<countVars, binarizeVars, detectVars>>

\* The iterator is exhausted: c.close()
CloseScript ==
    /\ main_pc = "loop"
    /\ main_i + 1 = Len(it)
    /\ main_pc' = "closed"
    /\ UNCHANGED <<geotiff, it, main_i, patch, main_nr, trees_shapefile,
                   rectangles_shapefile>>
    /\ UNCHANGED <<countVars, binarizeVars, detectVars>>

ScriptStep ==
    \/ NextPatch
    \/ WritePoint
    \/ EndPatch
    \/ CloseScript

\* A patch, with counting_dict["keypoints"] of its rgb in place of the rgb.
Patch(corner, kps) ==
    [left_upper_corner_coordinates |-> corner,
     right_lower_corner_coordinates |->
         <<RAdd(corner[1], RInt(1)), RSub(corner[2], RInt(1))>>,
     keypoints |-> kps]

\* n keypoints, ten pixels apart on rows of forty.
KeyPoints(n) ==
    PyList([k \in 1 .. n |->
               KeyPoint([location |-> <<RInt(10 * ((k - 1) % 40)),
                                        RInt(10 * ((k - 1) \div 40))>>])])

RECURSIVE SeqsUpTo(_, _)
\* The sequences over S of length at most n.
SeqsUpTo(S, n) ==
    IF n = 0 THEN {<<>>}
    ELSE LET shorter == SeqsUpTo(S, n - 1)
         IN  shorter \cup {Append(q, x) : q \in shorter, x \in S}

NorthUp == Affine(1, 0, 0, 0, -1, 0)

\* Inputs of the id scheme: patches with no, one or many keypoints.
IdPatches ==
    {Patch(<<RInt(0), RInt(0)>>, NoneVal)}
    \cup {Patch(<<RInt(0), RInt(0)>>, KeyPoints(n)) : n \in {0, 1, MaxKeypoints}}

IdInputs == {<<NorthUp, patches>> : patches \in SeqsUpTo(IdPatches, MaxTiles)}

\* Inputs of the coordinate mapping: one patch whose corner lies on a grid
\* of quarter units, under a unit, a scaled and a sheared transform.
Transforms == {NorthUp, Affine(2, 0, -1, 0, -2, 1), Affine(1, 1, 0, 1, -1, 0)}

Origin == [pt |-> <<RInt(0), RInt(0)>>]

GeoPatches ==
    {Patch(<<Rational(xn, 4), Rational(yn, 4)>>, PyList(kps)) :
        xn \in -GeoSpan .. GeoSpan, yn \in -GeoSpan .. GeoSpan,
        kps \in {<<Origin>>, <<Origin, [pt |-> <<<<3, 2>>, RInt(1)>>]>>}}

GeoInputs == {<<t, <<p>> >> : t \in Transforms, p \in GeoPatches}

(***************************************************************************)
(* Spec: one caller, every input of the model.                             *)
(***************************************************************************)
CountInputs == TileInputs \cup BadShapeInputs

InitScript ==
    /\ main_pc = "start"
    /\ geotiff = Unbound
    /\ it = <<>>
    /\ main_i = -1
    /\ patch = Unbound
    /\ main_nr = 0
    /\ trees_shapefile = <<>>
    /\ rectangles_shapefile = <<>>

Init == InitCount /\ InitBinarize /\ InitDetect /\ InitScript

Next ==
    \/ \E input \in CountInputs : CallCount(1, input)
    \/ CountStep(1)

Spec == Init /\ [][Next]_vars

NextBinarize == \E img \in GreyImages : Binarize(img)

SpecBinarize == Init /\ [][NextBinarize]_vars

NextDetect ==
    \/ \E img \in BlobImages : CallDetect(img)
    \/ DetectOn
    \/ EndDetect

SpecDetect == Init /\ [][NextDetect]_vars

NextScript ==
    \/ \E input \in IdInputs : OpenInputs(input[1], input[2])
    \/ ScriptStep

SpecScript == Init /\ [][NextScript]_vars

NextGeo ==
    \/ \E input \in GeoInputs : OpenInputs(input[1], input[2])
    \/ ScriptStep

SpecGeo == Init /\ [][NextGeo]_vars

(***************************************************************************)
(* SpecConc: the callers share one TreeCounter and interleave their calls  *)
(* step by step.                                                           *)
(***************************************************************************)
Black == <<0, 0, 0>>

White == <<255, 255, 255>>

ConcInputs ==
    {<<Tile(5, 5, Black, White, 2, 2, 1, 1), Mask(5, 5, "all")>>,
     <<Tile(4, 5, Black, White, 1, 1, 2, 2), Mask(4, 5, "cut")>>,
     <<Tile(0, 3, Black, Black, 0, 0, 0, 0), Mask(0, 3, "all")>>,
     <<Zeros(<<2, 2, 3>>), Zeros(<<2, 1>>)>>}

NextConc ==
    \E c \in Callers :
        \/ \E input \in ConcInputs : CallCount(c, input)
        \/ CountStep(c)

SpecConc == Init /\ [][NextConc]_vars

(***************************************************************************)
(* Properties of count (Spec).                                             *)
(***************************************************************************)
Returned(c) == pc[c] = "returned"

\* The tile of the call has no pixel at all.
NoPixels(c) == DOMAIN rgb_image[c].px = {}

AllZero(mask) == \A p \in DOMAIN mask.px : mask.px[p] = 0

IsList(v) == v.kind = "list"

\* C1: with a forest mask that is zero everywhere, count returns count 0;
\* the sequences are empty lists when the tile has pixels, and None when
\* it has none.
C1_ZeroMaskCountsNothing ==
    \A c \in Callers :
        (Returned(c) /\ AllZero(forest_mask[c])) =>
            /\ result[c].count = 0
            /\ IF NoPixels(c)
               THEN /\ result[c].trees = NoneVal
                    /\ result[c].keypoints = NoneVal
               ELSE /\ result[c].trees = PyList(<<>>)
                    /\ result[c].keypoints = PyList(<<>>)

\* A zero mask over a tile that holds a white crown on black ground.
C1_Witness ==
    \E c \in Callers :
        /\ Returned(c)
        /\ AllZero(forest_mask[c])
        /\ \E p, q \in DOMAIN rgb_image[c].px :
               rgb_image[c].px[p] = <<0, 0, 0>>
               /\ rgb_image[c].px[q] = <<255, 255, 255>>
        /\ result[c].keypoints = PyList(<<>>)

\* C1 as stated: a zero mask always gives count 0 and two empty sequences.
C1_AsStated ==
    \A c \in Callers :
        (Returned(c) /\ AllZero(forest_mask[c])) =>
            /\ result[c].count = 0
            /\ result[c].trees = PyList(<<>>)
            /\ result[c].keypoints = PyList(<<>>)

BadShapes(rgb, mask) ==
    \/ Len(rgb.shape) # 3
    \/ Len(mask.shape) # 2
    \/ SubSeq(rgb.shape, 1, 2) # mask.shape

\* The call has passed its assert statements or failed one of them.
Checked(c) == pc[c] \notin {"idle", "called"}

NothingComputed(c) ==
    /\ masked_rgb[c] = Unbound
    /\ keypoints[c] = Unbound
    /\ result[c] = Unbound

\* C2: when the image is not 3-dimensional, the mask not 2-dimensional, or
\* their heights and widths differ, count raises AssertionError with the
\* message of the first check that fails, before anything is masked or
\* detected, and returns nothing.
C2_BadShapesRaiseAssertionError ==
    \A c \in Callers :
        (Checked(c) /\ BadShapes(rgb_image[c], forest_mask[c])) =>
            /\ pc[c] = "raised"
            /\ err[c].kind = "AssertionError"
            /\ err[c].msg =
                  IF Len(rgb_image[c].shape) # 3
                  THEN "RGB image array should be 3-dimensional"
                  ELSE IF Len(forest_mask[c].shape) # 2
                  THEN "Forest mask array should be 2-dimensional"
                  ELSE "Forest mask should have the same height and width as RGB"
            /\ NothingComputed(c)

\* An image and a mask of the right ranks whose heights and widths differ.
C2_Witness ==
    \E c \in Callers :
        /\ pc[c] = "raised"
        /\ Len(rgb_image[c].shape) = 3
        /\ Len(forest_mask[c].shape) = 2
        /\ SubSeq(rgb_image[c].shape, 1, 2) # forest_mask[c].shape

\* C2 as stated: the failure is a ShapeMismatchError.
C2_AsStated ==
    \A c \in Callers :
        (Checked(c) /\ BadShapes(rgb_image[c], forest_mask[c])) =>
            /\ pc[c] = "raised"
            /\ err[c].kind = "ShapeMismatchError"
            /\ NothingComputed(c)

\* count == len(keypoints) == len(trees), and trees[k] == keypoints[k].pt
CountIsLength(r) ==
    /\ IsList(r.keypoints)
    /\ IsList(r.trees)
    /\ r.count = Len(r.keypoints.items)
    /\ r.count = Len(r.trees.items)
    /\ \A k \in 1 .. Len(r.trees.items) :
           r.trees.items[k] = r.keypoints.items[k].pt

\* C3: a result returned after detection has count == len(keypoints) ==
\* len(trees) and trees[k] == keypoints[k].pt for every k; the result
\* returned when the masked tile is None has count 0 and None for both.
C3_CountIsSequenceLength ==
    \A c \in Callers :
        Returned(c) =>
            IF IsNone(masked_rgb[c])
            THEN /\ result[c].count = 0
                 /\ IsNone(result[c].trees)
                 /\ IsNone(result[c].keypoints)
            ELSE CountIsLength(result[c])

\* A call that found a tree.
C3_Witness ==
    \E c \in Callers :
        /\ Returned(c)
        /\ result[c].count >= 1
        /\ Len(result[c].trees.items) = result[c].count

\* C3 as stated: every returned result has count == len of both sequences.
C3_AsStated == \A c \in Callers : Returned(c) => CountIsLength(result[c])

\* C4: count returns lists for 'trees' and 'keypoints' exactly when the
\* tile has pixels; for a tile without pixels the masked tile is None and
\* both are None.  count is 0 exactly when 'keypoints' is None or empty.
C4_SequencesOrNone ==
    \A c \in Callers :
        Returned(c) =>
            /\ IF NoPixels(c)
               THEN IsNone(result[c].trees) /\ IsNone(result[c].keypoints)
               ELSE IsList(result[c].trees) /\ IsList(result[c].keypoints)
            /\ result[c].count = 0 <=>
                  (IsNone(result[c].keypoints)
                   \/ result[c].keypoints.items = <<>>)

\* The return of line 123: a tile without pixels.
C4_Witness ==
    \E c \in Callers :
        /\ Returned(c)
        /\ IsNone(masked_rgb[c])
        /\ IsNone(result[c].trees)
        /\ IsNone(result[c].keypoints)
        /\ result[c].count = 0

\* C4 as stated: on every return path both sequences are sequences, never
\* None, and count is 0 exactly when they are empty.
C4_AsStated ==
    \A c \in Callers :
        Returned(c) =>
            /\ IsList(result[c].trees)
            /\ IsList(result[c].keypoints)
            /\ result[c].count = 0 <=>
                  (result[c].trees.items = <<>>
                   /\ result[c].keypoints.items = <<>>)

\* C6: the image _preprocess_forest_img returns has one channel, the
\* height and width of its input, and only the values 0 and 255.
C6_PreprocessedIsBinary ==
    \A c \in Callers :
        pc[c] = "detect" =>
            /\ masked_rgb[c].shape = SubSeq(rgb_image[c].shape, 1, 2)
            /\ DOMAIN masked_rgb[c].px
                  = Pixels(rgb_image[c].shape[1], rgb_image[c].shape[2])
            /\ \A p \in DOMAIN masked_rgb[c].px :
                   masked_rgb[c].px[p] \in {0, 255}

\* A preprocessed image that holds both values.
C6_Witness ==
    \E c \in Callers :
        /\ pc[c] = "detect"
        /\ \E p, q \in DOMAIN masked_rgb[c].px :
               masked_rgb[c].px[p] = 0 /\ masked_rgb[c].px[q] = 255

(***************************************************************************)
(* Properties of the coordinate mapping (SpecGeo).                         *)
(***************************************************************************)
\* A point has just been written for the keypoint at pixel (0, 0).
OriginWritten ==
    /\ main_pc = "points"
    /\ main_nr > 0
    /\ patch.keypoints.items[main_nr] = Origin

LastPoint == trees_shapefile[Len(trees_shapefile)].geometry

\* g is the centre of the pixel that holds q, both as <<col, row>>: g lies
\* half a pixel past integer coordinates, and q at most half a pixel
\* before g and less than half a pixel after it.
CentreOfPixelOf(g, q) ==
    \A k \in {1, 2} :
        /\ RSub(g[k], <<1, 2>>)[2] = 1
        /\ ~RLess(q[k], RSub(g[k], <<1, 2>>))
        /\ RLess(q[k], RAdd(g[k], <<1, 2>>))

\* C5: the point written for pixel (0, 0) of a patch whose corner is P is
\* the centre of the raster pixel that holds P.
C5_OriginMapsToPixelCentre ==
    OriginWritten =>
        LET P == patch.left_upper_corner_coordinates
        IN  CentreOfPixelOf(
                AffineInverseApply(geotiff, LastPoint[1], LastPoint[2]),
                AffineInverseApply(geotiff, P[1], P[2]))

\* A corner that is no pixel centre: the written point is another point.
C5_Witness ==
    /\ OriginWritten
    /\ LastPoint # patch.left_upper_corner_coordinates

\* C5 as stated: the point written for pixel (0, 0) is P itself.
C5_AsStated ==
    OriginWritten => LastPoint = patch.left_upper_corner_coordinates

(***************************************************************************)
(* Properties of the area filter (SpecDetect).                             *)
(***************************************************************************)
\* Every filter but the area filter lets contour k through.
OtherFiltersPass(k) ==
    /\ det_centers[k].circularityOk
    /\ det_centers[k].inertiaOk
    /\ det_centers[k].convexityOk
    /\ det_centers[k].colorOk
    /\ det_centers[k].area2 # 0

\* C7: the area filter lets a contour through exactly when minArea <= area
\* and area < maxArea.  A contour the other filters let through gives a
\* keypoint when its area is in that range; no contour in that range, no
\* keypoint.
C7_AreaFilterHalfOpen ==
    det_pc = "returned" =>
        /\ \A k \in 1 .. Len(det_centers) :
               det_centers[k].areaOk <=>
                   /\ 2 * params.minArea <= det_centers[k].area2
                   /\ det_centers[k].area2 < 2 * params.maxArea
        /\ \A k \in 1 .. Len(det_centers) :
               (/\ OtherFiltersPass(k)
                /\ 2 * params.minArea <= det_centers[k].area2
                /\ det_centers[k].area2 < 2 * params.maxArea)
                   => det_keypoints # <<>>
        /\ (\A k \in 1 .. Len(det_centers) :
               \/ det_centers[k].area2 < 2 * params.minArea
               \/ det_centers[k].area2 >= 2 * params.maxArea)
                   => det_keypoints = <<>>

\* A dark blob of area exactly maxArea that only the area filter rejects.
C7_Witness ==
    /\ det_pc = "returned"
    /\ \E k \in 1 .. Len(det_centers) :
           /\ det_centers[k].area2 = 2 * params.maxArea
           /\ OtherFiltersPass(k)
    /\ det_keypoints = <<>>

\* C7 as stated: a contour the other filters let through gives a keypoint
\* when minArea <= area <= maxArea.
C7_AsStated ==
    det_pc = "returned" =>
        \A k \in 1 .. Len(det_centers) :
            (/\ OtherFiltersPass(k)
             /\ 2 * params.minArea <= det_centers[k].area2
             /\ det_centers[k].area2 <= 2 * params.maxArea)
                => det_keypoints # <<>>

(***************************************************************************)
(* Properties of the shared TreeCounter (SpecConc).                        *)
(***************************************************************************)
\* What count returns for (rgb, mask) on a TreeCounter nobody else uses.
CountAlone(rgb, mask) ==
    LET masked == MaskedInverted(rgb, mask)
    IN  IF IsNone(masked) THEN NoContentResult
        ELSE CollectedResult(
                 PyList(detect_blobs(preprocess_forest_img(masked),
                                     get_blob_params)))

\* C8: whatever calls came before or run at the same time, self.params and
\* self.return_locations keep the values __init__ gave them, and a call
\* returns what it returns on a TreeCounter of its own.
C8_NoStateAcrossCalls ==
    /\ params = get_blob_params
    /\ return_locations = FALSE
    /\ \A c \in Callers :
           Returned(c) => result[c] = CountAlone(rgb_image[c], forest_mask[c])

\* A call returns a tree while another call, on another tile, is past its
\* detection.
C8_Witness ==
    \E c, d \in Callers :
        /\ c # d
        /\ Returned(c)
        /\ result[c].count >= 1
        /\ pc[d] \in {"collect", "returned"}
        /\ rgb_image[d] # rgb_image[c]

(***************************************************************************)
(* Properties of the binarisation (SpecBinarize).                          *)
(***************************************************************************)
Binarized == bin_l_channel.kind = "ndarray"

\* C9: a pixel of the contrast-adjusted image becomes 255 when its value
\* is 171 or more and 0 when it is 170 or less.
C9_ThresholdExclusive ==
    Binarized =>
        \A p \in DOMAIN bin_l_channel.px :
            bin_mask_r.px[p] = IF bin_l_channel.px[p] >= 171 THEN 255 ELSE 0

\* A pixel of value exactly 170, binarised to 0.
C9_Witness ==
    /\ Binarized
    /\ \E p \in DOMAIN bin_l_channel.px :
           bin_l_channel.px[p] = 170 /\ bin_mask_r.px[p] = 0

\* C9 as stated: 255 when the value is 170 or more, 0 below 170.
C9_AsStated ==
    Binarized =>
        \A p \in DOMAIN bin_l_channel.px :
            bin_mask_r.px[p] = IF bin_l_channel.px[p] >= 170 THEN 255 ELSE 0

(***************************************************************************)
(* Properties of the identifiers (SpecScript).                             *)
(***************************************************************************)
Ids(records) == {records[k].id : k \in 1 .. Len(records)}

\* C10 as stated: no two point records share an id, no two rectangle
\* records share an id.
C10_IdsDistinct ==
    /\ Cardinality(Ids(trees_shapefile)) = Len(trees_shapefile)
    /\ Cardinality(Ids(rectangles_shapefile)) = Len(rectangles_shapefile)

====
